---------------------------- MODULE Spec2Model ----------------------------
(***************************************************************************)
(* Debsources: the checksums plugin (python/plugins/hook_checksums.py),    *)
(* the Checksum search queries and the Location resolver                   *)
(* (python/models.py).                                                     *)
(*                                                                         *)
(* Strings are sequences of one-character strings, so that slicing         *)
(* (line[0:64], package[0:3]), rstrip and lexical ordering are computed    *)
(* the way the code computes them.                                         *)
(***************************************************************************)
EXTENDS Integers, Sequences, FiniteSets, TLC

(***************************************************************************)
(* Bounds of the model.                                                    *)
(***************************************************************************)
\* number of worker tasks that may be inside a pass at the same time
MaxActive == 2
\* number of File rows the file indexer inserts during one behaviour
MaxInserts == 2
\* largest slice end passed to files_with_sum
MaxSlice == 5
\* number of File rows of the index the search queries run on
MaxFiles == 5
\* number of directories and files put under the sources directory, their
\* parent directories not counted
MaxLeaves == 2
\* number of lines written to a sidecar before it is parsed back
MaxLines == 2

(***************************************************************************)
(* Python string primitives.                                               *)
(***************************************************************************)
\* an optional argument: None, or a value
None == [isNone |-> TRUE, val |-> <<>>]
Some(x) == [isNone |-> FALSE, val |-> x]

\* a path of the filesystem with no file, and a file with its text
NoFile == [exists |-> FALSE, text |-> <<>>]
TextFile(text) == [exists |-> TRUE, text |-> text]

\* ord() of the characters the model uses
Ord(c) ==
    CASE c = "\n" -> 10
      [] c = " " -> 32
      [] c = "." -> 46
      [] c = "0" -> 48
      [] c = "1" -> 49
      [] c = "2" -> 50
      [] c = "8" -> 56
      [] c = "9" -> 57
      [] c = "a" -> 97
      [] c = "b" -> 98
      [] c = "i" -> 105
      [] c = "l" -> 108
      [] c = "z" -> 122

\* str.isspace() of one character: what rstrip() removes
IsSpace(c) == c \in {" ", "\n", "\t", "\r"}

\* s[lo:hi] with 0-based, end-exclusive bounds, clipped to the string
Slice(s, lo, hi) ==
    LET h == IF hi < Len(s) THEN hi ELSE Len(s)
    IN  IF lo >= h THEN <<>> ELSE [i \in 1..(h - lo) |-> s[lo + i]]

\* s[lo:]
SliceFrom(s, lo) == Slice(s, lo, Len(s))

\* the largest member of a set of naturals, 0 for the empty set
Max(S) == IF S = {} THEN 0 ELSE CHOOSE m \in S : \A x \in S : x <= m

\* s.rstrip(): s up to its last character that is not whitespace
RStrip(s) == SubSeq(s, 1, Max({i \in 1..Len(s) : ~IsSpace(s[i])}))

RECURSIVE StrLess(_, _)
\* s < t on strings: lexical, by code point
StrLess(s, t) ==
    IF t = <<>> THEN FALSE
    ELSE IF s = <<>> THEN TRUE
    ELSE IF Ord(s[1]) < Ord(t[1]) THEN TRUE
    ELSE IF Ord(s[1]) > Ord(t[1]) THEN FALSE
    ELSE StrLess(Tail(s), Tail(t))

\* iteration over an open text file: the lines, each ending with its newline
\* (the last one ends with the file)
SplitLines(text) ==
    LET n == Len(text)
        ends == {i \in 1..n : text[i] = "\n"} \cup (IF n > 0 THEN {n} ELSE {})
        kth(k) == CHOOSE e \in ends : Cardinality({x \in ends : x <= e}) = k
    IN  [k \in 1..Cardinality(ends) |->
            SubSeq(text, Max({x \in ends : x < kth(k)}) + 1, kth(k))]

RECURSIVE Concat(_)
\* ''.join(seq)
Concat(seq) == IF seq = <<>> THEN <<>> ELSE seq[1] \o Concat(Tail(seq))

Range(f) == {f[i] : i \in DOMAIN f}


(***************************************************************************)
(* The index: Package and Version rows (models.py, Package / Version).     *)
(* (package, vnumber) is unique per row.  Row i of the table has id i.     *)
(* The ingestion run works on the package directories of rows 1 and 2.     *)
(***************************************************************************)
liba == <<"l", "i", "b", "a">>
zlib == <<"z", "l", "i", "b">>

PackageTable == << [name |-> liba], [name |-> zlib] >>

VersionTable ==
    << [package_id |-> 1, vnumber |-> <<"1", ".", "9">>, area |-> "main"],
       [package_id |-> 1, vnumber |-> <<"1", ".", "1", "0">>, area |-> "contrib"],
       [package_id |-> 2, vnumber |-> <<"1", ".", "2", ".", "8">>, area |-> "main"],
       [package_id |-> 2, vnumber |-> <<"1", ".", "1", "0">>, area |-> "non-free"] >>

AllPackages == DOMAIN PackageTable
AllVersions == DOMAIN VersionTable
Versions == {1, 2}

\* dbutils.lookup_version(session, package, version): the Version row's id
lookup_version(package, vnumber) ==
    CHOOSE v \in AllVersions :
        /\ PackageTable[VersionTable[v].package_id].name = package
        /\ VersionTable[v].vnumber = vnumber

(***************************************************************************)
(* The package directories.  An entry is a regular file with its content   *)
(* or a symbolic link with its target.  A content is named by the hex      *)
(* digit its digest repeats.                                               *)
(***************************************************************************)
TreeEmpty == {}
TreeFull ==
    { [path |-> <<"a">>, kind |-> "file", data |-> <<"a">>],
      [path |-> <<"b">>, kind |-> "file", data |-> <<"b">>],
      [path |-> <<"l">>, kind |-> "link", data |-> <<"a">>] }
Trees == {TreeEmpty, TreeFull}

\* a package directory with a file whose name ends with a space
TreeSpace ==
    { [path |-> <<"a">>, kind |-> "file", data |-> <<"a">>],
      [path |-> <<"a", " ">>, kind |-> "file", data |-> <<"b">>] }
TreesNames == {TreeEmpty, TreeSpace}

\* hashutil.sha256sum(path): the hex digest of the file's content
sha256sum(content) == [i \in 1..64 |-> content[1]]

RECURSIVE SortPaths(_)
\* the paths of a set, in lexical order
SortPaths(ps) ==
    IF ps = {} THEN <<>>
    ELSE LET m == CHOOSE p \in ps : \A q \in ps \ {p} : StrLess(p, q)
         IN  <<m>> \o SortPaths(ps \ {m})

\* fs_storage.walk_pkg_files(pkgdir): the regular files under pkgdir, symbolic
\* links excluded, in an order that is stable within one call
walk_pkg_files(t) == SortPaths({e.path : e \in {x \in t : x.kind = "file"}})

\* os.path.islink(path)
islink(t, p) == \E e \in t : e.path = p /\ e.kind = "link"

\* the content of the regular file at p
ContentOf(t, p) == (CHOOSE e \in t : e.path = p).data

\* out.write('%s  %s\n' % (sha256, relpath))
FormatLine(sha256, relpath) == sha256 \o <<" ", " ">> \o relpath \o <<"\n">>

\* the sidecar listing of a package directory: one line per regular file of the walk
CompleteListing(t) ==
    LET w == walk_pkg_files(t)
    IN  Concat([i \in 1..Len(w) |-> FormatLine(sha256sum(ContentOf(t, w[i])), w[i])])

\* parse_checksums(path): the (sha256, path) pairs of the lines, in file order
parse_checksums(text) ==
    LET lines == SplitLines(text)
    IN  [i \in 1..Len(lines) |->
            LET line == RStrip(lines[i])
            IN  [sha256 |-> Slice(line, 0, 64), path |-> SliceFrom(line, 66)]]

(***************************************************************************)
(* State.                                                                  *)
(***************************************************************************)
VARIABLES
    passes,        \* conf['passes']
    tree,          \* tree[v]: the package directory of version v
    sumsfile,      \* sumsfile[v]: the file <pkgdir>.checksums
    sumsfile_tmp,  \* sumsfile_tmp[v]: the file <pkgdir>.checksums.new
    files,         \* the File rows
    checksums,     \* the committed Checksum rows
    session,       \* session[v]: the uncommitted work of the pass on version v
    pc,            \* pc[v]: where the pass on version v stands
    op,            \* op[v]: the handler of the current or last pass: add, rm
    walk,          \* walk[v]: what walk_pkg_files has still to yield
    todo,          \* todo[v]: what parse_checksums has still to yield
    pre,           \* pre[v]: what the current pass found when it started
    adds,          \* adds[v]: session.add calls of the current pass
    ran,           \* ran[v]: add_package was the last thing to run on version v
    found,         \* the last answer of files_with_sum / count_files_with_sum
    meta,          \* the Version metadata the resolver's session sees
    sources,       \* the directories and files under sources_dir
    loc,           \* the last result of Location(...)
    rt,            \* lines written to a sidecar and what parse_checksums reads back
    observers,     \* observers[event]: the handlers subscribed, in registration order
    fired          \* fired[v]: the event notified for version v and not yet dispatched

\* what a handler's entry leaves alone, and what every later step does
readq == <<found, meta, sources, loc, rt, observers>>
readv == <<readq, fired>>
ingest == <<passes, tree, sumsfile, sumsfile_tmp, files, checksums, session, pc,
            op, walk, todo, pre, adds, ran>>
vars == <<passes, tree, sumsfile, sumsfile_tmp, files, checksums, session, pc,
          op, walk, todo, pre, adds, ran, found, meta, sources, loc, rt,
          observers, fired>>

NoPre == [sums |-> NoFile, rows |-> {}, ran |-> FALSE]
NoSession == [added |-> {}, deleted |-> FALSE, dup |-> FALSE]

\* pkg: the package and version the event names for package directory v
pkg(v) == [package |-> PackageTable[VersionTable[v].package_id].name,
           version |-> VersionTable[v].vnumber]

\* version = dbutils.lookup_version(session, pkg['package'], pkg['version'])
version_id(v) == lookup_version(pkg(v).package, pkg(v).version)

\* the Checksum rows of version v among rows
RowsOf(rows, v) == {c \in rows : c.version_id = v}

\* what a query of the session of the pass on v sees: the committed rows, less
\* what the session deleted, plus what it added
View(v) ==
    (IF session[v].deleted THEN checksums \ RowsOf(checksums, version_id(v)) ELSE checksums)
        \cup session[v].added

\* faulty variant: the index pass looks for a Checksum row of any Version
HasChecksums_anyVersion(v) == View(v) # {}

\* faulty variant: the index pass does not look for a Checksum row of the Version
HasChecksums_never(v) == FALSE

\* session.query(Checksum).filter_by(version_id=version.id).first()
HasChecksums(v) == RowsOf(View(v), version_id(v)) # {}

\* faulty variant: the File query filters by path only
FindFile_anyVersion(v, relpath) == {f \in files : f.path = relpath}

\* session.query(File).filter_by(version_id=version.id, path=relpath).first()
FindFile(v, relpath) ==
    {f \in files : f.version_id = version_id(v) /\ f.path = relpath}

\* Checksum(version, file_, sha256)
Checksum(v, file_, sha256) ==
    [version_id |-> version_id(v), file_id |-> file_.id, sha256 |-> sha256]

Active == {v \in Versions : pc[v] # "idle"}

\* the package directories are drawn from trees; a sidecar that exists holds
\* the listing of its package directory
InitIngestOn(trees) ==
    /\ passes \in SUBSET {"hooks.fs", "hooks.db"}
    /\ tree \in [Versions -> trees]
    /\ sumsfile \in [Versions -> {NoFile} \cup {TextFile(CompleteListing(t)) : t \in trees}]
    /\ \A v \in Versions : sumsfile[v] \in {NoFile, TextFile(CompleteListing(tree[v]))}
    /\ sumsfile_tmp = [v \in Versions |-> NoFile]
    /\ files = {}
    /\ checksums = {}
    /\ session = [v \in Versions |-> NoSession]
    /\ pc = [v \in Versions |-> "idle"]
    /\ op = [v \in Versions |-> "none"]
    /\ walk = [v \in Versions |-> <<>>]
    /\ todo = [v \in Versions |-> <<>>]
    /\ pre = [v \in Versions |-> NoPre]
    /\ adds = [v \in Versions |-> 0]
    /\ ran = [v \in Versions |-> FALSE]

InitIngest == InitIngestOn(Trees)

NoAnswer ==
    [asked |-> FALSE, checksum |-> <<>>, slice_ |-> None, package |-> None,
     files |-> <<>>, count |-> 0]

\* no Package row, no Version row
NoMeta == [packages |-> {}, versions |-> {}]

NoLocation ==
    [asked |-> FALSE, package |-> <<>>, version |-> <<>>, path |-> <<>>,
     kind |-> "none", debian_path |-> <<>>, sources_path |-> <<>>,
     sources_path_static |-> <<>>]

NoTrip == [done |-> FALSE, written |-> <<>>, parsed |-> <<>>]

\* the events a notification may name
Events == {"add-package", "remove-package", "rm-package"}

NoObservers == [e \in Events |-> <<>>]

\* debsources['subscribe'](event, action, title=MY_NAME)
subscribe(obs, event, action) == [obs EXCEPT ![event] = Append(@, action)]

\* lines 100-104: init_plugin(debsources)
init_plugin(obs) ==
    subscribe(subscribe(obs, "add-package", "add_package"),
              "rm-package", "rm_package")

NoEvent == [v \in Versions |-> "none"]

InitSearchRead ==
    /\ found = NoAnswer
    /\ rt = NoTrip

InitDispatch ==
    /\ observers = init_plugin(NoObservers)
    /\ fired = NoEvent

InitRead ==
    /\ InitSearchRead
    /\ InitDispatch
    /\ meta = NoMeta
    /\ sources = {}
    /\ loc = NoLocation

Init == InitIngest /\ InitRead

(***************************************************************************)
(* The caller of the handlers: it opens a session for the pass, commits    *)
(* it when the handler returns and rolls it back when the handler raises.  *)
(***************************************************************************)
\* the pass starts: a fresh session, and the record of what it found
Begin(v, handler) ==
    /\ pc[v] = "idle"
    /\ Cardinality(Active) < MaxActive
    /\ op' = [op EXCEPT ![v] = handler]
    /\ pre' = [pre EXCEPT ![v] = [sums |-> sumsfile[v],
                                  rows |-> RowsOf(checksums, v),
                                  ran |-> ran[v]]]
    /\ session' = [session EXCEPT ![v] = NoSession]

\* the pass is over: the session is closed and the worker forgets the pass
Finish(v, finished) ==
    /\ pc' = [pc EXCEPT ![v] = "idle"]
    /\ ran' = [ran EXCEPT ![v] = finished /\ op[v] = "add"]
    /\ session' = [session EXCEPT ![v] = NoSession]
    /\ op' = [op EXCEPT ![v] = "none"]
    /\ pre' = [pre EXCEPT ![v] = NoPre]
    /\ adds' = [adds EXCEPT ![v] = 0]
    /\ walk' = [walk EXCEPT ![v] = <<>>]
    /\ todo' = [todo EXCEPT ![v] = <<>>]

\* session.commit() after the handler returned; the flush of the commit raises
\* IntegrityError when an added row breaks UniqueConstraint('version_id', 'file_id')
Commit(v) ==
    /\ UNCHANGED readv
    /\ pc[v] = "returned"
    /\ IF session[v].dup
       THEN UNCHANGED checksums
       ELSE checksums' = View(v)
    /\ Finish(v, TRUE)
    /\ UNCHANGED <<passes, tree, sumsfile, sumsfile_tmp, files>>

\* session.rollback() after the handler raised
Rollback(v) ==
    /\ UNCHANGED readv
    /\ pc[v] = "raised"
    /\ Finish(v, TRUE)
    /\ UNCHANGED <<passes, tree, sumsfile, sumsfile_tmp, files, checksums>>

\* the worker is killed inside the pass: the session is lost, the files stay
Crash(v) ==
    /\ UNCHANGED readv
    /\ pc[v] \notin {"idle", "returned", "raised"}
    /\ Finish(v, FALSE)
    /\ UNCHANGED <<passes, tree, sumsfile, sumsfile_tmp, files, checksums>>

\* the file indexer adds the File row of a path of the package directory
InsertFile(v, p) ==
    /\ UNCHANGED readv
    /\ pc[v] = "idle"
    /\ Cardinality(files) < MaxInserts
    /\ p \in {e.path : e \in tree[v]}
    /\ FindFile(v, p) = {}
    /\ files' = files \cup {[id |-> Cardinality(files) + 1, version_id |-> v, path |-> p]}
    /\ ran' = [ran EXCEPT ![v] = FALSE]
    /\ UNCHANGED <<passes, tree, sumsfile, sumsfile_tmp, checksums, session, pc, op,
                   walk, todo, pre, adds>>

(***************************************************************************)
(* add_package(session, pkg, pkgdir)                                       *)
(***************************************************************************)
\* faulty variant: the listing is written under the final name
AddFsCheck_final(v) ==
    /\ UNCHANGED readv
    /\ Begin(v, "add")
    /\ IF "hooks.fs" \in passes /\ ~sumsfile[v].exists
       THEN /\ sumsfile' = [sumsfile EXCEPT ![v] = TextFile(<<>>)]
            /\ walk' = [walk EXCEPT ![v] = walk_pkg_files(tree[v])]
            /\ pc' = [pc EXCEPT ![v] = "walk"]
       ELSE /\ pc' = [pc EXCEPT ![v] = "add_db"]
            /\ UNCHANGED <<sumsfile, walk>>
    /\ UNCHANGED <<passes, tree, sumsfile_tmp, files, checksums, todo, adds, ran>>

\* lines 54-60: the filesystem pass is entered when 'hooks.fs' is enabled and the
\* sidecar does not exist; it opens the temporary file for writing and starts the walk
add_package_enter(v) ==
    /\ UNCHANGED readq
    /\ Begin(v, "add")
    /\ IF "hooks.fs" \in passes /\ ~sumsfile[v].exists
       THEN /\ sumsfile_tmp' = [sumsfile_tmp EXCEPT ![v] = TextFile(<<>>)]
            /\ walk' = [walk EXCEPT ![v] = walk_pkg_files(tree[v])]
            /\ pc' = [pc EXCEPT ![v] = "walk"]
       ELSE /\ pc' = [pc EXCEPT ![v] = "add_db"]
            /\ UNCHANGED <<sumsfile_tmp, walk>>
    /\ UNCHANGED <<passes, tree, sumsfile, files, checksums, todo, adds, ran>>

\* add_package is called without an event being tracked
AddFsCheck(v) == add_package_enter(v) /\ UNCHANGED fired

\* lines 60-61: the walk yields a file, bound to relpath; os.path.islink(path)
\* reads the name path, which nothing in add_package or the module binds:
\* NameError.  The with statement closes the temporary file, which stays.
AddFsRaise(v) ==
    /\ UNCHANGED readv
    /\ pc[v] = "walk"
    /\ walk[v] # <<>>
    /\ pc' = [pc EXCEPT ![v] = "raised"]
    /\ UNCHANGED <<passes, tree, sumsfile, sumsfile_tmp, files, checksums, session, op,
                   walk, todo, pre, adds, ran>>

\* line 68: the walk is over; os.rename(sumsfile_tmp, sumsfile)
AddFsRename(v) ==
    /\ UNCHANGED readv
    /\ pc[v] = "walk"
    /\ walk[v] = <<>>
    /\ sumsfile' = [sumsfile EXCEPT ![v] = sumsfile_tmp[v]]
    /\ sumsfile_tmp' = [sumsfile_tmp EXCEPT ![v] = NoFile]
    /\ pc' = [pc EXCEPT ![v] = "add_db"]
    /\ UNCHANGED <<passes, tree, files, checksums, session, op, walk, todo, pre, adds,
                   ran>>

\* lines 70-76: the index pass is entered when 'hooks.db' is enabled and the
\* Version has no Checksum row; open(path) in parse_checksums raises IOError
\* when the sidecar does not exist
AddDbCheck(v) ==
    /\ UNCHANGED readv
    /\ pc[v] = "add_db"
    /\ IF "hooks.db" \notin passes \/ HasChecksums(v)
       THEN /\ pc' = [pc EXCEPT ![v] = "returned"]
            /\ UNCHANGED todo
       ELSE IF ~sumsfile[v].exists
       THEN /\ pc' = [pc EXCEPT ![v] = "raised"]
            /\ UNCHANGED todo
       ELSE /\ todo' = [todo EXCEPT ![v] = parse_checksums(sumsfile[v].text)]
            /\ pc' = [pc EXCEPT ![v] = "insert"]
    /\ UNCHANGED <<passes, tree, sumsfile, sumsfile_tmp, files, checksums, session, op,
                   walk, pre, adds, ran>>

\* lines 76-81, one turn of the loop: the File query flushes the session first
\* (IntegrityError when an added row breaks the unique constraint); a pair with
\* a File row adds a Checksum row to the session, a pair without is skipped
AddDbIter(v) ==
    /\ UNCHANGED readv
    /\ pc[v] = "insert"
    /\ IF todo[v] = <<>>
       THEN /\ pc' = [pc EXCEPT ![v] = "returned"]
            /\ UNCHANGED <<session, todo, adds>>
       ELSE IF session[v].dup
       THEN /\ pc' = [pc EXCEPT ![v] = "raised"]
            /\ UNCHANGED <<session, todo, adds>>
       ELSE LET pair == Head(todo[v])
                file_ == FindFile(v, pair.path)
            IN  /\ todo' = [todo EXCEPT ![v] = Tail(@)]
                /\ UNCHANGED pc
                /\ IF file_ # {}
                   THEN LET row == Checksum(v, CHOOSE f \in file_ : TRUE, pair.sha256)
                        IN  /\ session' = [session EXCEPT
                                   ![v].added = @ \cup {row},
                                   ![v].dup = \E c \in View(v) :
                                                  /\ c.version_id = row.version_id
                                                  /\ c.file_id = row.file_id]
                            /\ adds' = [adds EXCEPT ![v] = @ + 1]
                   ELSE UNCHANGED <<session, adds>>
    /\ UNCHANGED <<passes, tree, sumsfile, sumsfile_tmp, files, checksums, op, walk,
                   pre, ran>>

(***************************************************************************)
(* rm_package(session, pkg, pkgdir)                                        *)
(***************************************************************************)
\* lines 88-91: with 'hooks.fs', the sidecar is unlinked when it exists
rm_package_enter(v) ==
    /\ UNCHANGED readq
    /\ Begin(v, "rm")
    /\ sumsfile' = IF "hooks.fs" \in passes /\ sumsfile[v].exists
                   THEN [sumsfile EXCEPT ![v] = NoFile]
                   ELSE sumsfile
    /\ pc' = [pc EXCEPT ![v] = "rm_db"]
    /\ UNCHANGED <<passes, tree, sumsfile_tmp, files, checksums, walk, todo, adds, ran>>

\* rm_package is called without an event being tracked
RmFs(v) == rm_package_enter(v) /\ UNCHANGED fired

\* faulty variant: the delete is never issued
RmDb_noDelete(v) ==
    /\ UNCHANGED readv
    /\ pc[v] = "rm_db"
    /\ pc' = [pc EXCEPT ![v] = "returned"]
    /\ UNCHANGED <<passes, tree, sumsfile, sumsfile_tmp, files, checksums, session, op,
                   walk, todo, pre, adds, ran>>

\* lines 93-97: with 'hooks.db', the Checksum rows of the Version are deleted
RmDb(v) ==
    /\ UNCHANGED readv
    /\ pc[v] = "rm_db"
    /\ session' = IF "hooks.db" \in passes
                  THEN [session EXCEPT ![v].deleted = TRUE,
                                       ![v].added = @ \ RowsOf(@, version_id(v))]
                  ELSE session
    /\ pc' = [pc EXCEPT ![v] = "returned"]
    /\ UNCHANGED <<passes, tree, sumsfile, sumsfile_tmp, files, checksums, op, walk,
                   todo, pre, adds, ran>>

Next ==
    \E v \in Versions :
        \/ \E p \in {e.path : e \in TreeFull \cup TreeSpace} : InsertFile(v, p)
        \/ AddFsCheck(v)
        \/ AddFsRaise(v)
        \/ AddFsRename(v)
        \/ AddDbCheck(v)
        \/ AddDbIter(v)
        \/ RmFs(v)
        \/ RmDb(v)
        \/ Commit(v)
        \/ Rollback(v)
        \/ Crash(v)

Spec == Init /\ [][Next]_vars

\* the same passes on package directories with a file name ending with a space
InitNames == InitIngestOn(TreesNames) /\ InitRead

SpecNames == InitNames /\ [][Next]_vars

(***************************************************************************)
(* Checksum._query_checksum, files_with_sum, count_files_with_sum          *)
(* (models.py).  F and C are the File and Checksum tables queried.         *)
(***************************************************************************)

\* order_by("package", "version", "path"): row x sorts before row y
RowLess(x, y) ==
    \/ StrLess(x.package, y.package)
    \/ x.package = y.package /\ StrLess(x.version, y.version)
    \/ x.package = y.package /\ x.version = y.version /\ StrLess(x.path, y.path)

RECURSIVE OrderBy(_)
\* the rows of a query in the order of its ORDER BY; rows the order does not
\* tell apart come in the order the database picks
OrderBy(rows) ==
    IF rows = {} THEN <<>>
    ELSE LET m == CHOOSE x \in rows : \A y \in rows : ~RowLess(y, x)
         IN  <<m>> \o OrderBy(rows \ {m})

\* faulty variant: the join lacks the filter Checksum.file_id == File.id
JoinRows_noFileFilter(F, C, checksum, package) ==
    LET joined == {j \in C \X AllVersions \X F \X AllPackages :
                      /\ j[1].sha256 = checksum
                      /\ j[1].version_id = j[2]
                      /\ VersionTable[j[2]].package_id = j[4]}
        named == IF ~package.isNone /\ package.val # <<>>
                 THEN {j \in joined : PackageTable[j[4]].name = package.val}
                 ELSE joined
    IN  {[package |-> PackageTable[j[4]].name,
          version |-> VersionTable[j[2]].vnumber,
          file_id |-> j[1].file_id,
          path |-> j[3].path] : j \in named}

\* the rows selected by _query_checksum: the join of Checksum, Version, File
\* and Package on the four filters, narrowed to one package when package is
\* neither None nor ""
JoinRows(F, C, checksum, package) ==
    LET joined == {j \in C \X AllVersions \X F \X AllPackages :
                      /\ j[1].sha256 = checksum
                      /\ j[1].version_id = j[2]
                      /\ j[1].file_id = j[3].id
                      /\ VersionTable[j[2]].package_id = j[4]}
        named == IF ~package.isNone /\ package.val # <<>>
                 THEN {j \in joined : PackageTable[j[4]].name = package.val}
                 ELSE joined
    IN  {[package |-> PackageTable[j[4]].name,
          version |-> VersionTable[j[2]].vnumber,
          file_id |-> j[1].file_id,
          path |-> j[3].path] : j \in named}

\* Checksum._query_checksum(session, checksum, package)
QueryChecksum(F, C, checksum, package) == OrderBy(JoinRows(F, C, checksum, package))

\* faulty variant: the slice takes stop as the last position
QuerySlice_inclusive(rows, start, stop) == Slice(rows, start, stop + 1)

\* query.slice(start, stop): OFFSET start LIMIT stop - start
QuerySlice(rows, start, stop) == Slice(rows, start, stop)

\* Checksum.files_with_sum(session, checksum, slice_, package)
files_with_sum(F, C, checksum, slice_, package) ==
    LET results == QueryChecksum(F, C, checksum, package)
        sliced == IF ~slice_.isNone
                  THEN QuerySlice(results, slice_.val[1], slice_.val[2])
                  ELSE results
    IN  [i \in 1..Len(sliced) |->
            [path |-> sliced[i].path,
             package |-> sliced[i].package,
             version |-> sliced[i].version]]

\* Checksum.count_files_with_sum(session, checksum, package)
count_files_with_sum(F, C, checksum, package) ==
    Len(QueryChecksum(F, C, checksum, package))

(***************************************************************************)
(* The search queries run on an index: File rows of several versions, in   *)
(* an id order that is not the order of the results, each with no          *)
(* Checksum row or with one of two digests.                                *)
(***************************************************************************)
IndexSlots ==
    << [version_id |-> 1, path |-> <<"b">>],
       [version_id |-> 3, path |-> <<"a">>],
       [version_id |-> 2, path |-> <<"a">>],
       [version_id |-> 1, path |-> <<"a">>],
       [version_id |-> 4, path |-> <<"b">>],
       [version_id |-> 2, path |-> <<"b">>],
       [version_id |-> 3, path |-> <<"b">>],
       [version_id |-> 4, path |-> <<"a">>] >>

IndexFiles ==
    {[id |-> i, version_id |-> IndexSlots[i].version_id, path |-> IndexSlots[i].path] :
        i \in 1..MaxFiles}

\* the digests asked for
Digests == {sha256sum(<<"a">>), sha256sum(<<"b">>)}

Slices == {None} \cup {Some(<<s, e>>) : s, e \in 0..MaxSlice}

Filters == {None, Some(<<>>), Some(liba)}

InitQuiet ==
    /\ passes = {"hooks.fs", "hooks.db"}
    /\ tree = [v \in Versions |-> TreeFull]
    /\ sumsfile = [v \in Versions |-> NoFile]
    /\ sumsfile_tmp = [v \in Versions |-> NoFile]
    /\ session = [v \in Versions |-> NoSession]
    /\ pc = [v \in Versions |-> "idle"]
    /\ op = [v \in Versions |-> "none"]
    /\ walk = [v \in Versions |-> <<>>]
    /\ todo = [v \in Versions |-> <<>>]
    /\ pre = [v \in Versions |-> NoPre]
    /\ adds = [v \in Versions |-> 0]
    /\ ran = [v \in Versions |-> FALSE]

InitSearch ==
    /\ InitQuiet
    /\ InitRead
    /\ files = IndexFiles
    /\ \E sums \in [IndexFiles -> {"none", "a", "b"}] :
           checksums = {[version_id |-> f.version_id, file_id |-> f.id,
                         sha256 |-> sha256sum(<<sums[f]>>)] :
                            f \in {g \in IndexFiles : sums[g] # "none"}}

\* a request asks for the files with a digest and for their number; a
\* behaviour follows one request
Query(checksum, slice_, package) ==
    /\ ~found.asked
    /\ IF slice_.isNone THEN TRUE ELSE slice_.val[1] <= slice_.val[2]
    /\ found' = [asked |-> TRUE, checksum |-> checksum, slice_ |-> slice_,
                 package |-> package,
                 files |-> files_with_sum(files, checksums, checksum, slice_, package),
                 count |-> count_files_with_sum(files, checksums, checksum, package)]
    /\ UNCHANGED <<ingest, meta, sources, loc, rt, observers, fired>>

NextSearch ==
    \E checksum \in Digests, slice_ \in Slices, package \in Filters :
        Query(checksum, slice_, package)

SpecSearch == InitSearch /\ [][NextSearch]_vars

\* the (package, version, path) triples that have a persisted Checksum row
\* with the digest, in the packages named (all of them when names is empty)
TriplesWith(checksum, package) ==
    LET rows == {c \in checksums : c.sha256 = checksum}
        triple(c) ==
            [path |-> (CHOOSE f \in files : f.id = c.file_id).path,
             package |-> PackageTable[VersionTable[c.version_id].package_id].name,
             version |-> VersionTable[c.version_id].vnumber]
    IN  {t \in {triple(c) : c \in rows} :
            package.isNone \/ package.val = <<>> \/ t.package = package.val}

\* the key a triple is ordered by, and its lexical order
SortKey(t) == <<t.package, t.version, t.path>>
KeyBefore(x, y) ==
    \E k \in 1..3 :
        /\ \A j \in 1..(k - 1) : SortKey(x)[j] = SortKey(y)[j]
        /\ StrLess(SortKey(x)[k], SortKey(y)[k])

\* C3: files_with_sum without a slice returns exactly the triples that have a
\* persisted Checksum row with the digest, each once, and
\* count_files_with_sum is their number whatever the slice
C3_FindExactlyThePersisted ==
    found.asked =>
        LET T == TriplesWith(found.checksum, found.package)
        IN  /\ found.count = Cardinality(T)
            /\ found.slice_.isNone =>
                  /\ Range(found.files) = T
                  /\ Len(found.files) = Cardinality(T)

\* C3 witness: an unsliced, unfiltered search has found three or more files
\* in an index that also holds rows of another digest
C3_Witness ==
    /\ found.asked /\ found.slice_.isNone /\ found.package.isNone
    /\ Len(found.files) >= 3
    /\ \E c \in checksums : c.sha256 # found.checksum

\* C4: files_with_sum with slice (s, e) returns the entries at positions
\* s .. e-1 of the unsliced result, and the unsliced result is in the order
\* of (package name, version string, path), each compared lexically
C4_SliceOfTheOrderedResult ==
    (found.asked /\ ~found.slice_.isNone) =>
        LET full == files_with_sum(files, checksums, found.checksum, None, found.package)
            s == found.slice_.val[1]
            e == found.slice_.val[2]
            n == IF e < Len(full) THEN e ELSE Len(full)
        IN  /\ Len(found.files) = (IF n > s THEN n - s ELSE 0)
            /\ \A i \in 1..Len(found.files) : found.files[i] = full[s + i]
            /\ \A i, j \in 1..Len(full) : i < j => KeyBefore(full[i], full[j])
            /\ Range(full) = TriplesWith(found.checksum, found.package)

\* C4 witness: slice (2, 5) of a digest present in five files has returned
\* three entries
C4_Witness ==
    /\ found.asked /\ found.slice_ = Some(<<2, 5>>)
    /\ found.count = 5 /\ Len(found.files) = 3

(***************************************************************************)
(* Properties of the ingestion passes.                                     *)
(***************************************************************************)
BothPasses == passes = {"hooks.fs", "hooks.db"}

\* the Checksum rows the pairs of the sidecar of v call for: one per pair
\* whose path has a File row of version v
ExpectedRows(v) ==
    LET pairs == Range(parse_checksums(sumsfile[v].text))
        hits == {x \in pairs \X files : x[2].version_id = v /\ x[2].path = x[1].path}
    IN  {[version_id |-> v, file_id |-> x[2].id, sha256 |-> x[1].sha256] : x \in hits}

\* C1: with both passes enabled, an add_package run on a version whose last
\* run was add_package too, with nothing on that version in between, ends with
\* the sidecar and the Checksum rows it started with and has added no
\* Checksum row
C1_SecondRunChangesNothing ==
    [][\A v \in Versions :
          (BothPasses /\ op[v] = "add" /\ pre[v].ran
             /\ pc[v] \in {"returned", "raised"} /\ pc'[v] = "idle")
          => /\ sumsfile'[v] = pre[v].sums
             /\ RowsOf(checksums', v) = pre[v].rows
             /\ adds[v] = 0]_vars

\* C1 witness: a second add_package run in a row has returned on a version
\* that has a sidecar and Checksum rows from the first
C1_Witness ==
    \E v \in Versions :
        /\ BothPasses /\ op[v] = "add" /\ pc[v] = "returned" /\ pre[v].ran
        /\ pre[v].sums.exists /\ pre[v].rows # {}

\* C2: whatever state the filesystem pass is in or was aborted in, the file
\* under the final sidecar name does not exist or holds the complete listing
\* of the package directory
C2_FinalNameNeverPartial ==
    \A v \in Versions :
        sumsfile[v].exists => sumsfile[v].text = CompleteListing(tree[v])

\* C2 witness: a pass was aborted inside the filesystem pass and left an
\* incomplete listing, under the temporary name only
C2_Witness ==
    \E v \in Versions :
        /\ pc[v] = "idle" /\ ~sumsfile[v].exists
        /\ sumsfile_tmp[v].exists
        /\ sumsfile_tmp[v].text # CompleteListing(tree[v])

\* C7: with both passes enabled, when rm_package has returned for a version
\* and its session is committed, the sidecar of the version does not exist,
\* no Checksum row of the Version remains and files_with_sum returns no entry
\* of the version for any digest
C7_RemovalLeavesNothing ==
    [][\A v \in Versions :
          (BothPasses /\ op[v] = "rm" /\ pc[v] = "returned" /\ pc'[v] = "idle")
          => /\ ~sumsfile'[v].exists
             /\ RowsOf(checksums', version_id(v)) = {}
             /\ \A d \in Digests :
                   \A t \in Range(files_with_sum(files', checksums', d, None, None)) :
                       ~(t.package = pkg(v).package /\ t.version = pkg(v).version)]_vars

\* C7 witness: rm_package has returned for a version that had a sidecar and
\* the Checksum rows of two files
C7_Witness ==
    \E v \in Versions :
        /\ BothPasses /\ op[v] = "rm" /\ pc[v] = "returned"
        /\ pre[v].sums.exists /\ Cardinality(pre[v].rows) = 2

\* C8: when the index pass of add_package has run for a Version that had no
\* Checksum row, it has not raised and the session holds exactly one Checksum
\* row per pair of the sidecar whose path has a File row of the Version
C8_RowsAreThePairsWithFile ==
    \A v \in Versions :
        (op[v] = "add" /\ "hooks.db" \in passes /\ pre[v].rows = {} /\ sumsfile[v].exists)
        => /\ pc[v] # "raised"
           /\ pc[v] = "returned" =>
                 /\ session[v].added = ExpectedRows(v)
                 /\ RowsOf(View(v), v) = ExpectedRows(v)
                 /\ ~session[v].dup

\* C8 witness: the index pass has returned after creating a row for a pair
\* with a File row and skipping a pair without
C8_Witness ==
    \E v \in Versions :
        /\ op[v] = "add" /\ pc[v] = "returned" /\ "hooks.db" \in passes
        /\ pre[v].rows = {} /\ sumsfile[v].exists
        /\ session[v].added # {}
        /\ \E pr \in Range(parse_checksums(sumsfile[v].text)) : FindFile(v, pr.path) = {}

\* C9: once the filesystem pass of add_package has run for a package directory
\* that had no sidecar, it has completed and the sidecar holds one line per
\* regular file of the walk and none for a symbolic link
C9_FsPassWritesListing ==
    \A v \in Versions :
        (op[v] = "add" /\ "hooks.fs" \in passes /\ ~pre[v].sums.exists
           /\ pc[v] \notin {"idle", "walk"})
        => /\ pc[v] # "raised"
           /\ sumsfile[v] = TextFile(CompleteListing(tree[v]))

\* C10: when no pass is running on a Version and it has a Checksum row, every
\* pair of its sidecar whose path has a File row of the Version has its row
C10_OneRowMeansAllRows ==
    \A v \in Versions :
        (pc[v] = "idle" /\ sumsfile[v].exists /\ RowsOf(checksums, v) # {})
        => ExpectedRows(v) \subseteq checksums

\* C12: the Checksum table holds at most one row per (version_id, file_id)
\* and no pass has added to its session a Checksum row for a (Version, File)
\* pair that the session already sees a row for
C12_OneRowPerPair ==
    /\ \A c1, c2 \in checksums :
          (c1.version_id = c2.version_id /\ c1.file_id = c2.file_id) => c1 = c2
    /\ \A v \in Versions : ~session[v].dup

\* the state of version v that its passes write
OwnState(v) == <<sumsfile[v], sumsfile_tmp[v], RowsOf(checksums, v), session[v]>>

\* where the pass on version v stands, what it has consumed and added
OwnProgress(v) == <<pc[v], op[v], walk[v], todo[v], adds[v]>>

\* the sidecar add_package leaves when it runs on version v with no other
\* pass around: the one it found, or the listing of a walk that yields nothing
AloneSidecar(v) ==
    IF "hooks.fs" \in passes /\ ~pre[v].sums.exists /\ walk_pkg_files(tree[v]) = <<>>
    THEN TextFile(<<>>)
    ELSE pre[v].sums

\* the Checksum rows of version v after add_package ran on it with no other
\* pass around: the rows it found, or the rows of the pairs of its sidecar
AloneRows(v) ==
    IF "hooks.db" \in passes /\ pre[v].rows = {} /\ AloneSidecar(v).exists
    THEN LET pairs == Range(parse_checksums(AloneSidecar(v).text))
             hits == {x \in pairs \X files :
                         x[2].version_id = v /\ x[2].path = x[1].path}
         IN  {[version_id |-> v, file_id |-> x[2].id, sha256 |-> x[1].sha256] :
                 x \in hits}
    ELSE pre[v].rows

\* C11: passes on different versions run interleaved; a step that is not a
\* step of the pass on version v leaves the sidecar, the temporary file, the
\* Checksum rows and the session of v alone, and an add_package pass on v
\* ends with the sidecar and the Checksum rows it ends with when it runs
\* with no other pass around
C11_InterleavedAsOneAfterTheOther ==
    [][\A v \in Versions :
          /\ (OwnProgress(v)' = OwnProgress(v)) => (OwnState(v)' = OwnState(v))
          /\ (op[v] = "add" /\ pc[v] \in {"returned", "raised"} /\ pc'[v] = "idle")
              => /\ sumsfile'[v] = AloneSidecar(v)
                 /\ RowsOf(checksums', v) = AloneRows(v)]_vars

\* C11 witness: two add_package passes are inside their index pass at the
\* same time, each has added a Checksum row to its session and returned
C11_Witness ==
    /\ \A v \in Versions :
          op[v] = "add" /\ pc[v] = "returned" /\ session[v].added # {} /\ ~session[v].dup
    /\ \E v, w \in Versions : v # w

(***************************************************************************)
(* The sidecar format: lines are written as add_package writes them and    *)
(* read back by parse_checksums.                                           *)
(***************************************************************************)
\* relative paths of regular files: plain names, a name with an inner space,
\* a name starting with a space, a name ending with a space
RelPaths == {<<"a">>, <<"b">>, <<"a", " ", "b">>, <<" ", "a">>, <<"a", " ">>}

RECURSIVE SeqsUpTo(_, _)
\* the sequences over S of length up to n
SeqsUpTo(S, n) ==
    IF n = 0 THEN {<<>>}
    ELSE LET shorter == SeqsUpTo(S, n - 1)
         IN  shorter \cup {Append(q, x) : q \in shorter, x \in S}

InitFormat ==
    /\ InitQuiet
    /\ files = {}
    /\ checksums = {}
    /\ found = NoAnswer
    /\ InitDispatch
    /\ meta = NoMeta
    /\ sources = {}
    /\ loc = NoLocation
    /\ rt \in {[done |-> FALSE, written |-> w, parsed |-> <<>>] :
                  w \in SeqsUpTo({[sha256 |-> d, path |-> q] :
                                     d \in Digests, q \in RelPaths}, MaxLines)}

\* lines 65-67 for each pair, in order, then parse_checksums on the file
WriteThenParse ==
    /\ ~rt.done
    /\ rt' = [rt EXCEPT
                 !.done = TRUE,
                 !.parsed = parse_checksums(
                     Concat([i \in 1..Len(rt.written) |->
                                FormatLine(rt.written[i].sha256, rt.written[i].path)]))]
    /\ UNCHANGED <<ingest, found, meta, sources, loc, observers, fired>>

NextFormat == WriteThenParse

SpecFormat == InitFormat /\ [][NextFormat]_vars

\* C13: the lines written for a sequence of (digest, relative path) pairs are
\* parsed back to the same pairs in the same order
C13_ParseReadsBackWhatWasWritten ==
    rt.done => rt.parsed = rt.written

(***************************************************************************)
(* The plugin under the orchestrator: init_plugin subscribes the handlers, *)
(* the orchestrator is notified of an event for a package version and      *)
(* calls the handlers subscribed to it.  No other plugin is loaded, so an  *)
(* event has at most one handler.                                          *)
(***************************************************************************)
InitEvents ==
    /\ InitIngest
    /\ passes = {"hooks.fs", "hooks.db"}
    /\ InitSearchRead
    /\ meta = NoMeta
    /\ sources = {}
    /\ loc = NoLocation
    /\ observers = NoObservers
    /\ fired = NoEvent

\* lines 100-104, once at startup
InitPlugin ==
    /\ observers = NoObservers
    /\ observers' = init_plugin(observers)
    /\ UNCHANGED <<ingest, found, meta, sources, loc, rt, fired>>

\* the orchestrator is notified of event for version v; it fires events once
\* the plugins are initialised
Fire(v, event) ==
    /\ observers # NoObservers
    /\ fired[v] = "none"
    /\ pc[v] = "idle"
    /\ fired' = [fired EXCEPT ![v] = event]
    /\ UNCHANGED <<ingest, readq>>

\* the orchestrator calls the handlers subscribed to the event fired for v
Notify(v) ==
    /\ fired[v] # "none"
    /\ fired' = [fired EXCEPT ![v] = "none"]
    /\ LET handlers == observers[fired[v]]
       IN  IF handlers = <<>>
           THEN UNCHANGED <<ingest, readq>>
           ELSE IF handlers[1] = "add_package"
           THEN add_package_enter(v)
           ELSE rm_package_enter(v)

NextEvents ==
    \/ InitPlugin
    \/ \E v \in Versions :
        \/ \E event \in Events : Fire(v, event)
        \/ Notify(v)
        \/ AddFsRaise(v)
        \/ AddFsRename(v)
        \/ AddDbCheck(v)
        \/ AddDbIter(v)
        \/ RmDb(v)
        \/ Commit(v)
        \/ Rollback(v)
        \/ Crash(v)

\* the orchestrator dispatches every event it was notified of
SpecEvents ==
    InitEvents /\ [][NextEvents]_vars /\ \A v \in Versions : WF_vars(Notify(v))

\* C14: once init_plugin has run, an 'add-package' event fired for a package
\* version leads to add_package running on it and a 'remove-package' event
\* leads to rm_package running on it
C14_EventsReachTheirHandler ==
    \A v \in Versions :
        /\ (fired[v] = "add-package") ~> (op[v] = "add")
        /\ (fired[v] = "remove-package") ~> (op[v] = "rm")

(***************************************************************************)
(* Location (python/models.py).  A path is the sequence of its components, *)
(* an absolute path starts with the component "/"; the empty string is the *)
(* empty path.                                                             *)
(***************************************************************************)
slash == <<"/">>
main == <<"m", "a", "i", "n">>
contrib == <<"c", "o", "n", "t", "r", "i", "b">>
nonfree == <<"n", "o", "n", "-", "f", "r", "e", "e">>
srv == <<"s", "r", "v">>
static == <<"s", "t", "a", "t", "i", "c">>
etc == <<"e", "t", "c">>
v19 == <<"1", ".", "9">>
fa == <<"a">>

\* the areas, in the order they are tried
AREAS == <<main, contrib, nonfree>>

\* the path a string without "/" stands for
Str(s) == IF s = <<>> THEN <<>> ELSE <<s>>

\* os.path.join(a, b): an absolute b discards a
join2(a, b) == IF b # <<>> /\ b[1] = slash THEN b ELSE a \o b

\* os.path.join(a, p1, p2, ...)
RECURSIVE os_path_join(_)
os_path_join(ps) ==
    IF Len(ps) = 1 THEN ps[1]
    ELSE join2(os_path_join(SubSeq(ps, 1, Len(ps) - 1)), ps[Len(ps)])

\* os.path.exists(p)
os_path_exists(disk, p) == p \in disk

sources_dir == <<slash, srv>>
sources_static == <<slash, static>>

\* faulty variant: the prefix is the first character of every package name
prefix_first(package) == Slice(package, 0, 1)

\* lines 384-387
prefix(package) ==
    IF Slice(package, 0, 3) = <<"l", "i", "b">>
    THEN Slice(package, 0, 4)
    ELSE Slice(package, 0, 1)

\* lines 389-408: .first() of the Package and of the Version query; the
\* attribute of None raises, and whatever is raised is caught
get_debian_path(m, disk, package, version, sdir) ==
    LET prows == {q \in m.packages : q = package}
        vrows == {r \in m.versions : r.package = package /\ r.vnumber = version}
        hits == {i \in DOMAIN AREAS :
                    os_path_exists(disk,
                        os_path_join(<<sdir, Str(AREAS[i]), Str(prefix(package)),
                                       Str(package), Str(version)>>))}
    IN  IF prows = {} \/ vrows = {}
        THEN IF hits = {}
             THEN [raised |-> "InvalidPackageOrVersionError", value |-> <<>>]
             ELSE [raised |-> "none",
                   value |-> os_path_join(<<Str(AREAS[CHOOSE i \in hits :
                                                   \A j \in hits : i <= j]),
                                            Str(prefix(package))>>)]
        ELSE LET varea == (CHOOSE r \in vrows : TRUE).area
             IN  IF varea.isNone
                 THEN [raised |-> "OtherError", value |-> <<>>]
                 ELSE [raised |-> "none",
                       value |-> os_path_join(<<Str(varea.val),
                                                Str(prefix(package))>>)]

\* faulty variant: the Location is returned whether its path exists or not
Location_unchecked(m, disk, package, version, path) ==
    LET debian_path == get_debian_path(m, disk, package, version, sources_dir)
        path_to == os_path_join(<<Str(package), Str(version), path>>)
        asked == [NoLocation EXCEPT !.asked = TRUE, !.package = package,
                                    !.version = version, !.path = path]
    IN  IF debian_path.raised # "none"
        THEN [asked EXCEPT !.kind = debian_path.raised]
        ELSE [asked EXCEPT
                 !.kind = "Location",
                 !.debian_path = debian_path.value,
                 !.sources_path =
                     os_path_join(<<sources_dir, debian_path.value, path_to>>),
                 !.sources_path_static =
                     os_path_join(<<sources_static, debian_path.value, path_to>>)]

\* lines 412-433: Location(session, sources_dir, sources_static, package,
\* version, path), the object built or the exception raised
Location(m, disk, package, version, path) ==
    LET debian_path == get_debian_path(m, disk, package, version, sources_dir)
        path_to == os_path_join(<<Str(package), Str(version), path>>)
        sources_path == os_path_join(<<sources_dir, debian_path.value, path_to>>)
        asked == [NoLocation EXCEPT !.asked = TRUE, !.package = package,
                                    !.version = version, !.path = path]
    IN  IF debian_path.raised # "none"
        THEN [asked EXCEPT !.kind = debian_path.raised]
        ELSE IF ~os_path_exists(disk, sources_path)
        THEN [asked EXCEPT !.kind = "FileOrFolderNotFound",
                           !.debian_path = debian_path.value,
                           !.sources_path = sources_path]
        ELSE [asked EXCEPT
                 !.kind = "Location",
                 !.debian_path = debian_path.value,
                 !.sources_path = sources_path,
                 !.sources_path_static =
                     os_path_join(<<sources_static, debian_path.value, path_to>>)]

(***************************************************************************)
(* The resolver's world: the metadata of liba and zlib, and a disk with up *)
(* to MaxLeaves version directories or files, under the right or under the *)
(* one-letter prefix, plus a file outside the sources directory.           *)
(***************************************************************************)
LocPackages == {liba, zlib}

Leaves ==
    {sources_dir \o <<AREAS[i], b, q, v19>> \o tail :
        i \in DOMAIN AREAS, b \in {Slice(liba, 0, 4), Slice(liba, 0, 1)},
        q \in {liba}, tail \in {<<>>, <<fa>>}}
    \cup {sources_dir \o <<AREAS[i], b, q, v19>> \o tail :
        i \in DOMAIN AREAS, b \in {Slice(zlib, 0, 4), Slice(zlib, 0, 1)},
        q \in {zlib}, tail \in {<<>>, <<fa>>}}
    \cup {<<slash, etc>>}

RECURSIVE SubsetsUpTo(_, _)
SubsetsUpTo(S, k) ==
    IF k = 0 THEN {{}}
    ELSE LET smaller == SubsetsUpTo(S, k - 1)
         IN  smaller \cup {t \cup {x} : t \in smaller, x \in S}

\* a path that exists has its parent directories
Prefixes(p) == {SubSeq(p, 1, k) : k \in 1..Len(p)}

Disks ==
    {UNION {Prefixes(p) : p \in chosen \cup {sources_dir}} :
        chosen \in SubsetsUpTo(Leaves, MaxLeaves)}

\* per package: no Package row, a Package row without Version row, a Version
\* row 1.9 with an area or with the area left NULL
MetaOf(q) ==
    {NoMeta, [packages |-> {q}, versions |-> {}]}
    \cup {[packages |-> {q},
           versions |-> {[package |-> q, vnumber |-> v19, area |-> a]}] :
             a \in {None} \cup {Some(AREAS[i]) : i \in DOMAIN AREAS}}

Metas ==
    {[packages |-> x.packages \cup y.packages,
      versions |-> x.versions \cup y.versions] :
        x \in MetaOf(liba), y \in MetaOf(zlib)}

InitLoc ==
    /\ InitQuiet
    /\ InitSearchRead
    /\ InitDispatch
    /\ files = {}
    /\ checksums = {}
    /\ meta \in Metas
    /\ sources \in Disks
    /\ loc = NoLocation

\* a request builds one Location; a behaviour follows one request
Resolve(package, version, path) ==
    /\ ~loc.asked
    /\ loc' = Location(meta, sources, package, version, path)
    /\ UNCHANGED <<ingest, found, meta, sources, rt, observers, fired>>

NextLoc ==
    \E package \in LocPackages, version \in {v19, <<>>},
       path \in {<<>>, <<fa>>, <<slash, etc>>} :
        Resolve(package, version, path)

SpecLoc == InitLoc /\ [][NextLoc]_vars

(***************************************************************************)
(* Properties of the resolver.                                             *)
(***************************************************************************)
\* the index has no Version row reachable from a Package row
NoMetadata(package, version) ==
    \/ package \notin meta.packages
    \/ ~\E r \in meta.versions : r.package = package /\ r.vnumber = version

\* first four characters of a name starting with lib, else the first one
Bucket(q) ==
    IF Len(q) >= 3 /\ q[1] = "l" /\ q[2] = "i" /\ q[3] = "b"
    THEN [i \in 1..(IF Len(q) < 4 THEN Len(q) ELSE 4) |-> q[i]]
    ELSE <<q[1]>>

\* <root>/<area>/<bucket>/<package>/<version>
VersionDir(area, package, version) ==
    sources_dir \o <<area, Bucket(package), package>> \o Str(version)

\* the areas under which the version directory is on disk
OnDisk(package, version) ==
    {i \in DOMAIN AREAS : VersionDir(AREAS[i], package, version) \in sources}

\* C5: without metadata for (package, version) the area is the first of AREAS
\* whose <root>/<area>/<bucket>/<package>/<version> exists, the bucket being
\* the first four characters of a lib* name and the first character of any
\* other; when no area has the directory the Location fails with
\* InvalidPackageOrVersionError.
C5_ProbeSelectsFirstAreaOnDisk ==
    (loc.asked /\ NoMetadata(loc.package, loc.version))
    => LET hits == OnDisk(loc.package, loc.version)
       IN  IF hits = {}
           THEN loc.kind = "InvalidPackageOrVersionError"
           ELSE /\ loc.kind \in {"Location", "FileOrFolderNotFound"}
                /\ \E i \in hits :
                      /\ \A j \in hits : i <= j
                      /\ loc.debian_path = <<AREAS[i], Bucket(loc.package)>>

C5_Witness ==
    /\ loc.asked
    /\ loc.package = liba
    /\ loc.version = v19
    /\ NoMetadata(liba, v19)
    /\ OnDisk(liba, v19) = {2}
    /\ sources_dir \o <<main, <<"l">>, liba, v19>> \in sources
    /\ loc.kind = "Location"
    /\ loc.debian_path = <<contrib, <<"l", "i", "b", "a">>>>

\* the area of (package, version): the one of the metadata, else the probed
ResolvedAreas(package, version) ==
    IF NoMetadata(package, version)
    THEN {AREAS[i] : i \in {h \in OnDisk(package, version) :
                               \A j \in OnDisk(package, version) : h <= j}}
    ELSE {r.area.val : r \in {x \in meta.versions :
                                 /\ x.package = package
                                 /\ x.vnumber = version
                                 /\ ~x.area.isNone}}

\* C6: when the area is resolved, by the metadata or by the probe, and the
\* join of <root>, <area>, <bucket>, <package>, <version> and <path> does not
\* exist, the construction raises FileOrFolderNotFound and returns no
\* Location, also when the metadata names an area the version is not under.
C6_MissingPathIsNotFound ==
    loc.asked
    => \A area \in ResolvedAreas(loc.package, loc.version) :
          join2(VersionDir(area, loc.package, loc.version), loc.path) \notin sources
          => loc.kind = "FileOrFolderNotFound"

C6_Witness ==
    /\ loc.asked
    /\ loc.package = liba
    /\ loc.version = v19
    /\ loc.path = <<>>
    /\ ~NoMetadata(liba, v19)
    /\ ResolvedAreas(liba, v19) = {main}
    /\ OnDisk(liba, v19) = {2}
    /\ loc.kind = "FileOrFolderNotFound"

=============================================================================
